---- MODULE Spec2Model ----
(***************************************************************************)
(* MultilineBashOperator.execute                                           *)
(* (src/SpotifyPipeline/airflow/plugins/operators/                         *)
(*  multiline_bash_operator.py).                                           *)
(*                                                                         *)
(* The operator object carries env, bash_command and xcom_push_flag.       *)
(* execute(context) prepares the child's environment, writes the command   *)
(* into a temporary file inside a temporary directory, spawns "bash file", *)
(* reads the child's combined stdout/stderr line by line, waits for the    *)
(* child and either raises AirflowException or returns the captured lines. *)
(* The child is a separate OS process: its writes, the closing of its      *)
(* output and its exit interleave with the steps of execute().             *)
(***************************************************************************)
EXTENDS Integers, Sequences, FiniteSets, TLC

VARIABLES
    self_env,              \* self.env: None or a dict (the very object the caller supplied)
    supplied_env,          \* history: the value of the mapping when the operator was constructed
    os_environ,            \* os.environ of the calling process
    bash_command,          \* self.bash_command, as what the script does: [out, final_newline, code]
    xcom_push_flag,        \* self.xcom_push_flag
    invocations,           \* number of execute() calls started
    pc,                    \* position of execute()
    airflow_context_vars,  \* context_to_airflow_vars(context) of this invocation
    entry_env,             \* history: self.env when this invocation was entered
    env,                   \* the env handed to Popen
    output_buffer,         \* the local list, unbound when capture is off
    tmp_dir,               \* "none" | "exists" | "removed"
    f,                     \* the NamedTemporaryFile: "none" | "exists" | "removed"
    script_written,        \* f.write + f.flush done
    popen_calls,           \* number of Popen(...) calls of this invocation
    child,                 \* the OS process: "none" | "running" | "closed" | "exited"
    child_env,             \* environment the child was started with
    child_written,         \* lines the child has written so far
    stdout_pipe,           \* sub_process.stdout: raw lines written and not yet read
    nread,                 \* lines taken from the pipe by readline
    line,                  \* the loop variable
    returncode,            \* sub_process.returncode
    log,                   \* self.log entries of this invocation
    result,                \* value returned by execute()
    raised                 \* exception that left execute()

vars == <<self_env, supplied_env, os_environ, bash_command, xcom_push_flag, invocations,
          pc, airflow_context_vars, entry_env, env, output_buffer, tmp_dir, f,
          script_written, popen_calls, child, child_env, child_written, stdout_pipe,
          nread, line, returncode, log, result, raised>>

request == <<self_env, supplied_env, os_environ, bash_command, xcom_push_flag>>

(***************************************************************************)
(* Bounds                                                                  *)
(***************************************************************************)
MaxLines == 2          \* lines a script writes
MaxInvocations == 2    \* execute() calls on one operator object

(***************************************************************************)
(* Python values                                                           *)
(***************************************************************************)
NoExc == "NoExc"

PyNone == [type |-> "NoneType", val |-> <<>>]
PyUnbound == [type |-> "unbound", val |-> <<>>]
PyList(xs) == [type |-> "list", val |-> xs]
PyStr(s) == [type |-> "str", val |-> s]
PyBytes(bs) == [type |-> "bytes", val |-> bs]
PyInt(n) == [type |-> "int", val |-> <<n>>]
PyDict(m) == [type |-> "dict", val |-> m]

(***************************************************************************)
(* Bytes and text.  The child writes bytes; execute() decodes each line    *)
(* with output_encoding (utf-8) and strips trailing whitespace.            *)
(***************************************************************************)
NL == 10
Whitespace == {" ", "\t", "\n", "\r"}

ValidByte(b) == b < 128

Chr(b) ==
    CASE b = 10 -> "\n"
      [] b = 13 -> "\r"
      [] b = 9  -> "\t"
      [] b = 32 -> " "
      [] b = 97 -> "a"
      [] b = 98 -> "b"
      [] OTHER  -> "?"

\* bytes.decode("utf-8") succeeds
DecodeOK(bs) == \A i \in 1..Len(bs) : ValidByte(bs[i])

\* bytes.decode("utf-8")
Decode(bs) == [i \in 1..Len(bs) |-> Chr(bs[i])]

\* removes only one trailing "\n"
StripTerminator(s) ==
    IF s # <<>> /\ s[Len(s)] = "\n" THEN SubSeq(s, 1, Len(s) - 1) ELSE s

RECURSIVE RstripRec(_)
RstripRec(s) ==
    IF s = <<>> THEN s
    ELSE IF s[Len(s)] \in Whitespace THEN RstripRec(SubSeq(s, 1, Len(s) - 1))
    ELSE s

\* variant: strips the line terminator only
Rstrip_terminatorOnly(s) == StripTerminator(s)

\* str.rstrip()
Rstrip(s) == RstripRec(s)

(***************************************************************************)
(* Scripts.  A script is what bash does with bash_command: the lines it    *)
(* writes (each to stdout or stderr, both connected to the one pipe),      *)
(* whether the last line ends with a newline, and its exit status.         *)
(***************************************************************************)
Texts == { <<97>>, <<98, 32>>, <<>>, <<255>> }
Fds == {"stdout", "stderr"}
OutLine == [fd : Fds, text : Texts]
ExitCodes == {0, 3, -9}

RECURSIVE SeqsUpTo(_, _)
SeqsUpTo(S, n) ==
    IF n = 0 THEN { <<>> }
    ELSE LET shorter == SeqsUpTo(S, n - 1)
         IN  shorter \cup { Append(s, x) : s \in { t \in shorter : Len(t) = n - 1 }, x \in S }

Scripts ==
    { sc \in [out : SeqsUpTo(OutLine, MaxLines), final_newline : BOOLEAN, code : ExitCodes] :
        ~sc.final_newline => (sc.out # <<>> /\ sc.out[Len(sc.out)].text # <<>>) }

\* the bytes of the i-th line as they travel through the pipe
RawLine(sc, i) ==
    IF i = Len(sc.out) /\ ~sc.final_newline
    THEN sc.out[i].text
    ELSE Append(sc.out[i].text, NL)

(***************************************************************************)
(* Environments: mappings from a set of keys to values.                    *)
(***************************************************************************)
CtxKeys == {"AIRFLOW_CTX_DAG_ID", "AIRFLOW_CTX_DAG_RUN_ID"}
Keys == {"MARKER"} \cup CtxKeys
Vals == {"v1", "v2"}

Mappings(K) == UNION { [D -> Vals] : D \in SUBSET K }
EmptyMap == [k \in {} |-> "v1"]

\* variant: entries already present are kept (setdefault instead of update)
Update_keepExisting(d, u) ==
    [k \in DOMAIN d \cup DOMAIN u |-> IF k \in DOMAIN d THEN d[k] ELSE u[k]]

\* dict.update: the entries of u replace or extend those of d
Update(d, u) ==
    [k \in DOMAIN d \cup DOMAIN u |-> IF k \in DOMAIN u THEN u[k] ELSE d[k]]

(***************************************************************************)
(* Log entries                                                             *)
(***************************************************************************)
LogEntry(kind, arg) == [kind |-> kind, arg |-> arg]

\* the entries written by self.log.info(line), in order
RECURSIVE OutputLogged(_)
OutputLogged(l) ==
    IF l = <<>> THEN <<>>
    ELSE IF l[1].kind = "line"
         THEN <<l[1].arg>> \o OutputLogged(Tail(l))
         ELSE OutputLogged(Tail(l))

(***************************************************************************)
(* Initial states: a constructed operator, execute() not yet called.       *)
(***************************************************************************)
InitLocals ==
    /\ pc = "idle"
    /\ invocations = 0
    /\ airflow_context_vars = EmptyMap
    /\ entry_env = PyNone
    /\ env = EmptyMap
    /\ output_buffer = PyUnbound
    /\ tmp_dir = "none"
    /\ f = "none"
    /\ script_written = FALSE
    /\ popen_calls = 0
    /\ child = "none"
    /\ child_env = EmptyMap
    /\ child_written = 0
    /\ stdout_pipe = << >>
    /\ nread = 0
    /\ line = PyStr(<<>>)
    /\ returncode = PyNone
    /\ log = << >>
    /\ result = PyNone
    /\ raised = NoExc

InitWith(envs, environs, scripts, flags) ==
    /\ self_env \in {PyNone} \cup { PyDict(m) : m \in envs }
    /\ supplied_env = self_env
    /\ os_environ \in environs
    /\ bash_command \in scripts
    /\ xcom_push_flag \in flags
    /\ InitLocals

(***************************************************************************)
(* Leaving the two with-blocks: NamedTemporaryFile closes and deletes the  *)
(* file, TemporaryDirectory removes the directory.  Both run on a normal   *)
(* exit and while an exception unwinds.                                    *)
(***************************************************************************)
\* variant: cleanup written after the block instead of in a context manager
AfterExit_noFinally(resource, exc) ==
    IF resource = "exists" /\ exc = NoExc THEN "removed" ELSE resource

AfterExit(resource, exc) == IF resource = "exists" THEN "removed" ELSE resource

\* variant: a failed command is run again
RaiseTarget_retry(exc) == IF exc = "AirflowException" THEN "spawn" ELSE "done"

\* where control goes when exc is raised inside execute(): out of it
RaiseTarget(exc) == "done"

Raise(exc) ==
    /\ raised' = IF RaiseTarget(exc) = "done" THEN exc ELSE raised
    /\ pc' = RaiseTarget(exc)
    /\ f' = IF RaiseTarget(exc) = "done" THEN AfterExit(f, exc) ELSE f
    /\ tmp_dir' = IF RaiseTarget(exc) = "done" THEN AfterExit(tmp_dir, exc) ELSE tmp_dir

\* variant: "if self.sub_process.returncode > 0:"
Truthy_positive(rc) == rc.type = "int" /\ rc.val[1] > 0

\* the truth test of "if self.sub_process.returncode:"
Truthy(rc) == rc.type = "int" /\ rc.val[1] # 0

\* variant: "return output_buffer" without the test of the flag
ReturnValue_unconditional(flag, buf) == buf

\* variant: the last line only, as BashOperator returns it
ReturnValue_lastLine(flag, buf) ==
    IF flag
    THEN PyStr(IF buf.val = <<>> THEN <<>> ELSE buf.val[Len(buf.val)])
    ELSE PyNone

\* "if self.xcom_push_flag: return output_buffer", else falls off the end
ReturnValue(flag, buf) == IF flag THEN buf ELSE PyNone

(***************************************************************************)
(* execute(), lines 94-110: environment, lineage data, buffer.             *)
(* Calls on one operator object follow one another.  The locals, the log   *)
(* entries and the process handle describe the current call: a new call    *)
(* starts them afresh (self.sub_process is rebound by the next Popen, and  *)
(* a child left behind by the previous call is no longer referenced).      *)
(***************************************************************************)
Execute(ctx) ==
    /\ pc \in {"idle", "done"}
    /\ invocations < MaxInvocations
    /\ invocations' = invocations + 1
    /\ log' = << LogEntry("tmp_root", <<>>) >>
    /\ airflow_context_vars' = ctx
    /\ entry_env' = self_env
    /\ IF self_env = PyNone
       THEN /\ env' = Update(os_environ, ctx)      \* update of the copy
            /\ self_env' = self_env
       ELSE /\ env' = Update(self_env.val, ctx)    \* env is self.env: update in place
            /\ self_env' = PyDict(env')
    /\ output_buffer' = IF xcom_push_flag THEN PyList(<< >>) ELSE PyUnbound
    /\ tmp_dir' = "none"
    /\ f' = "none"
    /\ script_written' = FALSE
    /\ popen_calls' = 0
    /\ child' = "none"
    /\ child_env' = EmptyMap
    /\ child_written' = 0
    /\ stdout_pipe' = << >>
    /\ nread' = 0
    /\ line' = PyStr(<<>>)
    /\ returncode' = PyNone
    /\ result' = PyNone
    /\ raised' = NoExc
    /\ pc' = "tmpdir"
    /\ UNCHANGED <<supplied_env, os_environ, bash_command, xcom_push_flag>>

\* line 112: with TemporaryDirectory(prefix="airflowtmp") as tmp_dir
EnterTemporaryDirectory ==
    /\ pc = "tmpdir"
    /\ tmp_dir' = "exists"
    /\ pc' = "tmpfile"
    /\ UNCHANGED <<request, invocations, airflow_context_vars, entry_env, env, output_buffer,
                   f, script_written, popen_calls, child, child_env, child_written,
                   stdout_pipe, nread, line, returncode, log, result, raised>>

\* lines 113-119: with NamedTemporaryFile(...) as f; write, flush, log the location
WriteScript ==
    /\ pc = "tmpfile"
    /\ f' = "exists"
    /\ script_written' = TRUE
    /\ log' = Append(log, LogEntry("script_location", <<>>))
    /\ pc' = "spawn"
    /\ UNCHANGED <<request, invocations, airflow_context_vars, entry_env, env, output_buffer,
                   tmp_dir, popen_calls, child, child_env, child_written,
                   stdout_pipe, nread, line, returncode, result, raised>>

\* lines 128-139: log the command, Popen(["bash", fname], ...), log "Output:", line = ""
Spawn ==
    /\ pc = "spawn"
    /\ popen_calls' = popen_calls + 1
    /\ child' = "running"
    /\ child_env' = env
    /\ child_written' = 0
    /\ stdout_pipe' = << >>
    /\ nread' = 0
    /\ returncode' = PyNone
    /\ line' = PyStr(<<>>)
    /\ log' = log \o << LogEntry("running_command", <<>>), LogEntry("output_header", <<>>) >>
    /\ pc' = "readline"
    /\ UNCHANGED <<request, invocations, airflow_context_vars, entry_env, env, output_buffer,
                   tmp_dir, f, script_written, result, raised>>

\* line 129: Popen raises (bash not found, fork fails); no process exists
SpawnFails ==
    /\ pc = "spawn"
    /\ popen_calls' = popen_calls + 1
    /\ log' = Append(log, LogEntry("running_command", <<>>))
    /\ Raise("OSError")
    /\ UNCHANGED <<request, invocations, airflow_context_vars, entry_env, env, output_buffer,
                   script_written, child, child_env, child_written,
                   stdout_pipe, nread, line, returncode, result>>

\* readline has a whole line to give: one ended by a newline, or the rest at end of stream
LineAvailable ==
    /\ stdout_pipe # << >>
    /\ \/ Head(stdout_pipe)[Len(Head(stdout_pipe))] = NL
       \/ child # "running"

\* lines 140-141: readline returns a line; decode it and strip it
ReadLine ==
    /\ pc = "readline"
    /\ stdout_pipe # << >>
    /\ LineAvailable
    /\ DecodeOK(Head(stdout_pipe))
    /\ stdout_pipe' = Tail(stdout_pipe)
    /\ nread' = nread + 1
    /\ line' = PyStr(Rstrip(Decode(Head(stdout_pipe))))
    /\ pc' = "append"
    /\ UNCHANGED <<request, invocations, airflow_context_vars, entry_env, env, output_buffer,
                   tmp_dir, f, script_written, popen_calls, child, child_env, child_written,
                   returncode, log, result, raised>>

\* line 141: decode raises; the exception leaves execute() through both with-blocks
ReadLineDecodeFails ==
    /\ pc = "readline"
    /\ stdout_pipe # << >>
    /\ LineAvailable
    /\ ~DecodeOK(Head(stdout_pipe))
    /\ stdout_pipe' = Tail(stdout_pipe)
    /\ nread' = nread + 1
    /\ line' = PyBytes(Head(stdout_pipe))
    /\ Raise("UnicodeDecodeError")
    /\ UNCHANGED <<request, invocations, airflow_context_vars, entry_env, env, output_buffer,
                   script_written, popen_calls, child, child_env, child_written,
                   returncode, log, result>>

\* lines 142-143: if self.xcom_push_flag: output_buffer.append(line)
AppendLine ==
    /\ pc = "append"
    /\ output_buffer' = IF xcom_push_flag
                        THEN PyList(Append(output_buffer.val, line.val))
                        ELSE output_buffer
    /\ pc' = "log"
    /\ UNCHANGED <<request, invocations, airflow_context_vars, entry_env, env,
                   tmp_dir, f, script_written, popen_calls, child, child_env, child_written,
                   stdout_pipe, nread, line, returncode, log, result, raised>>

\* variant: self.log.info(line) placed under "if self.xcom_push_flag:"
LogLine_underFlag ==
    /\ pc = "log"
    /\ log' = IF xcom_push_flag THEN Append(log, LogEntry("line", line.val)) ELSE log
    /\ pc' = "readline"
    /\ UNCHANGED <<request, invocations, airflow_context_vars, entry_env, env, output_buffer,
                   tmp_dir, f, script_written, popen_calls, child, child_env, child_written,
                   stdout_pipe, nread, line, returncode, result, raised>>

\* line 144: self.log.info(line)
LogLine ==
    /\ pc = "log"
    /\ log' = Append(log, LogEntry("line", line.val))
    /\ pc' = "readline"
    /\ UNCHANGED <<request, invocations, airflow_context_vars, entry_env, env, output_buffer,
                   tmp_dir, f, script_written, popen_calls, child, child_env, child_written,
                   stdout_pipe, nread, line, returncode, result, raised>>

\* line 140: readline returns b"": every writer has closed the pipe and it is empty
EndOfStream ==
    /\ pc = "readline"
    /\ stdout_pipe = << >>
    /\ child \in {"closed", "exited"}
    /\ pc' = "wait"
    /\ UNCHANGED <<request, invocations, airflow_context_vars, entry_env, env, output_buffer,
                   tmp_dir, f, script_written, popen_calls, child, child_env, child_written,
                   stdout_pipe, nread, line, returncode, log, result, raised>>

\* variant: sub_process.poll() instead of wait(): does not block
Wait_poll ==
    /\ pc = "wait"
    /\ returncode' = IF child = "exited" THEN PyInt(bash_command.code) ELSE PyNone
    /\ log' = Append(log, LogEntry("returncode", returncode'.val))
    /\ pc' = "check"
    /\ UNCHANGED <<request, invocations, airflow_context_vars, entry_env, env, output_buffer,
                   tmp_dir, f, script_written, popen_calls, child, child_env, child_written,
                   stdout_pipe, nread, line, result, raised>>

\* lines 145-148: sub_process.wait() blocks until the child has exited; log the code
Wait ==
    /\ pc = "wait"
    /\ child = "exited"
    /\ returncode' = PyInt(bash_command.code)
    /\ log' = Append(log, LogEntry("returncode", <<bash_command.code>>))
    /\ pc' = "check"
    /\ UNCHANGED <<request, invocations, airflow_context_vars, entry_env, env, output_buffer,
                   tmp_dir, f, script_written, popen_calls, child, child_env, child_written,
                   stdout_pipe, nread, line, result, raised>>

\* lines 150-151: non-zero return code: raise AirflowException("Bash command failed")
CommandFailed ==
    /\ pc = "check"
    /\ Truthy(returncode)
    /\ Raise("AirflowException")
    /\ UNCHANGED <<request, invocations, airflow_context_vars, entry_env, env, output_buffer,
                   script_written, popen_calls, child, child_env, child_written,
                   stdout_pipe, nread, line, returncode, log, result>>

\* lines 150-154: zero return code: leave both with-blocks, return the buffer or nothing
Return ==
    /\ pc = "check"
    /\ ~Truthy(returncode)
    /\ f' = AfterExit(f, NoExc)
    /\ tmp_dir' = AfterExit(tmp_dir, NoExc)
    /\ result' = ReturnValue(xcom_push_flag, output_buffer)
    /\ pc' = "done"
    /\ UNCHANGED <<request, invocations, airflow_context_vars, entry_env, env, output_buffer,
                   script_written, popen_calls, child, child_env, child_written,
                   stdout_pipe, nread, line, returncode, log, raised>>

(***************************************************************************)
(* The child process (bash running the script), concurrent with execute()  *)
(***************************************************************************)
ChildUnchanged ==
    UNCHANGED <<request, invocations, pc, airflow_context_vars, entry_env, env, output_buffer,
                tmp_dir, f, script_written, popen_calls, child_env,
                nread, line, returncode, log, result, raised>>

\* the script writes its next line to stdout or stderr: both are the one pipe
ChildWrite ==
    /\ child = "running"
    /\ child_written < Len(bash_command.out)
    /\ child_written' = child_written + 1
    /\ stdout_pipe' = Append(stdout_pipe, RawLine(bash_command, child_written + 1))
    /\ child' = child
    /\ ChildUnchanged

\* the script closes its output before it ends (exec >&- 2>&-)
ChildClosesOutput ==
    /\ child = "running"
    /\ child_written = Len(bash_command.out)
    /\ child' = "closed"
    /\ UNCHANGED <<child_written, stdout_pipe>>
    /\ ChildUnchanged

\* the script ends with its exit status; its end closes the pipe
ChildExits ==
    /\ child \in {"running", "closed"}
    /\ child_written = Len(bash_command.out)
    /\ child' = "exited"
    /\ UNCHANGED <<child_written, stdout_pipe>>
    /\ ChildUnchanged

(***************************************************************************)
(* Specifications                                                          *)
(***************************************************************************)
\* output handling: every script, one environment
OneEnviron == [k \in {"MARKER"} |-> "v1"]
OneContext == [k \in {"AIRFLOW_CTX_DAG_ID"} |-> "v2"]

Init == InitWith({}, {OneEnviron}, Scripts, BOOLEAN)

Steps ==
    \/ EnterTemporaryDirectory
    \/ WriteScript
    \/ Spawn
    \/ SpawnFails
    \/ ReadLine
    \/ ReadLineDecodeFails
    \/ AppendLine
    \/ LogLine
    \/ EndOfStream
    \/ Wait
    \/ CommandFailed
    \/ Return
    \/ ChildWrite
    \/ ChildClosesOutput
    \/ ChildExits

Next ==
    \/ Execute(OneContext)
    \/ Steps

Spec == Init /\ [][Next]_vars

\* environment handling: every supplied mapping and context, three scripts
EnvScripts ==
    { sc \in Scripts : /\ Len(sc.out) = 1
                       /\ sc.out[1].fd = "stdout"
                       /\ sc.final_newline
                       /\ \/ sc.out[1].text = <<97>> /\ sc.code \in {0, 3}
                          \/ sc.out[1].text = <<255>> /\ sc.code = 0 }

InitEnv == InitWith(Mappings(Keys), Mappings({"MARKER"}), EnvScripts, {TRUE})

NextEnv ==
    \/ \E ctx \in Mappings(CtxKeys) : Execute(ctx)
    \/ Steps

SpecEnv == InitEnv /\ [][NextEnv]_vars

(***************************************************************************)
(* Properties                                                              *)
(***************************************************************************)
Out == bash_command.out

\* execute() has finished and wait() delivered the exit status rc
FinishedWith(rc) == pc = "done" /\ returncode = PyInt(rc)
FinishedNonZero == pc = "done" /\ returncode.type = "int" /\ returncode.val[1] # 0

\* text is the decoded raw line without its trailing whitespace
IsStripped(text, raw) ==
    LET d == Decode(raw)
    IN  /\ Len(text) <= Len(d)
        /\ text = SubSeq(d, 1, Len(text))
        /\ \A i \in (Len(text) + 1)..Len(d) : d[i] \in Whitespace
        /\ text = <<>> \/ text[Len(text)] \notin Whitespace

\* xs holds the first k lines of the child's combined output, stripped, in order
FirstLines(xs, k) ==
    /\ Len(xs) = k
    /\ \A i \in 1..k : IsStripped(xs[i], RawLine(bash_command, i))

IsStdout(i) == Out[i].fd = "stdout"
Indices == [i \in 1..Len(Out) |-> i]
StdoutIndices == SelectSeq(Indices, IsStdout)

\* the lines written to standard output, each without its line terminator only
StdoutLinesUnterminated ==
    [j \in 1..Len(StdoutIndices) |->
        StripTerminator(Decode(RawLine(bash_command, StdoutIndices[j])))]

\* C1 as stated: after exit status 0 with capture enabled, execute() returns exactly
\* the lines written to standard output, in order, each without its line terminator.
C1_StdoutLinesTerminatorRemoved ==
    (FinishedWith(0) /\ xcom_push_flag) => result = PyList(StdoutLinesUnterminated)

\* C1 amended: after exit status 0 with capture enabled, execute() returns exactly the
\* lines of the child's combined stdout/stderr stream, none dropped, duplicated or
\* reordered, each decoded and without any of its trailing whitespace.
C1_CombinedLinesStripped ==
    (FinishedWith(0) /\ xcom_push_flag) =>
        /\ result.type = "list"
        /\ FirstLines(result.val, Len(Out))

C1_Witness ==
    /\ FinishedWith(0)
    /\ xcom_push_flag
    /\ Len(Out) = 2
    /\ Out[1].text = <<98, 32>>
    /\ Out[2].fd = "stderr"
    /\ result = PyList(<< <<"b">>, <<"a">> >>)

\* C2: after any non-zero exit status execute() raises AirflowException, whatever was
\* written before and whatever the capture flag, and hands no lines to the caller.
C2_NonZeroRaises ==
    FinishedNonZero => (raised = "AirflowException" /\ result = PyNone)

C2_Witness ==
    /\ FinishedNonZero
    /\ returncode.val[1] < 0
    /\ xcom_push_flag
    /\ Len(output_buffer.val) = 2
    /\ raised = "AirflowException"

\* C3: once execute() has finished, by return, by the command-failed error or by an
\* exception of Popen or of decoding, the temporary directory and file are gone.
C3_TemporariesRemoved ==
    pc = "done" => (tmp_dir = "removed" /\ f = "removed")

C3_Witness ==
    /\ pc = "done"
    /\ raised = "UnicodeDecodeError"
    /\ child = "running"
    /\ tmp_dir = "removed"

\* the mapping execute() starts from: os.environ when self.env is None, else self.env
BaseEnv == IF entry_env = PyNone THEN os_environ ELSE entry_env.val

\* C4: the child's environment is the base mapping overridden by the context
\* variables: keys of the context carry the context value, every other key of the
\* base is passed through, and there is no other key.
C4_ChildEnvironment ==
    child # "none" =>
        /\ DOMAIN child_env = DOMAIN BaseEnv \cup DOMAIN airflow_context_vars
        /\ \A k \in DOMAIN airflow_context_vars : child_env[k] = airflow_context_vars[k]
        /\ \A k \in DOMAIN BaseEnv \ DOMAIN airflow_context_vars : child_env[k] = BaseEnv[k]

C4_Witness ==
    /\ child # "none"
    /\ entry_env # PyNone
    /\ "MARKER" \in DOMAIN entry_env.val
    /\ \E k \in DOMAIN entry_env.val \cap DOMAIN airflow_context_vars :
            entry_env.val[k] # airflow_context_vars[k]

\* C5: after exit status 0 execute() raises nothing; it returns None when capture is
\* off and the line buffer when capture is on.
C5_ZeroReturns ==
    FinishedWith(0) =>
        /\ raised = NoExc
        /\ result = (IF xcom_push_flag THEN output_buffer ELSE PyNone)
        /\ xcom_push_flag => output_buffer.type = "list"

C5_Witness ==
    /\ FinishedWith(0)
    /\ ~xcom_push_flag
    /\ Len(Out) = 2
    /\ result = PyNone
    /\ raised = NoExc

\* C6: execute() leaves the operator's supplied environment mapping as it was, and
\* every child's environment is the originally supplied mapping overridden by the
\* context variables of its own invocation.
C6_EnvUnchanged ==
    /\ self_env = supplied_env
    /\ (child # "none" /\ supplied_env # PyNone) =>
            child_env = Update(supplied_env.val, airflow_context_vars)

C8_OneSpawn ==
    /\ popen_calls <= 1
    /\ pc = "done" => popen_calls = 1
    /\ child # "none" => popen_calls = 1

C8_Witness ==
    /\ FinishedNonZero
    /\ raised = "AirflowException"
    /\ popen_calls = 1

\* lines of the current invocation that have been logged, and that have been captured
LoggedCount ==
    IF pc \in {"append", "log"} \/ raised = "UnicodeDecodeError" THEN nread - 1 ELSE nread
CapturedCount ==
    IF pc = "append" \/ raised = "UnicodeDecodeError" THEN nread - 1 ELSE nread

\* the loop has ended without an exception
Drained == pc \in {"wait", "check"} \/ (pc = "done" /\ raised \in {NoExc, "AirflowException"})

\* C9: the lines logged are the lines handled so far, one entry each, in stream order,
\* with or without capture; the buffer exists only with capture and then holds the
\* same lines, ahead of the log by at most the line being processed; when the loop
\* ends every line of the stream has been logged.
C9_LogAndBuffer ==
    pc # "idle" =>
        /\ FirstLines(OutputLogged(log), LoggedCount)
        /\ xcom_push_flag =>
              /\ output_buffer.type = "list"
              /\ FirstLines(output_buffer.val, CapturedCount)
        /\ ~xcom_push_flag => output_buffer = PyUnbound
        /\ Drained => LoggedCount = Len(Out)

C9_Witness ==
    /\ pc = "log"
    /\ ~xcom_push_flag
    /\ nread = 2
    /\ Len(OutputLogged(log)) = 1
    /\ line.val # OutputLogged(log)[1]

ReturnCodeLogged == \E i \in 1..Len(log) : log[i].kind = "returncode"

\* the order of the steps up to the decision
C10_StepsInOrder ==
    /\ popen_calls > 0 => script_written
    /\ (pc \in {"wait", "check"} \/ returncode # PyNone) =>
            (stdout_pipe = <<>> /\ child \in {"closed", "exited"} /\ nread = Len(Out))
    /\ returncode # PyNone => child = "exited"
    /\ ReturnCodeLogged => returncode # PyNone
    /\ (pc = "done" /\ raised \in {NoExc, "AirflowException"}) =>
            /\ ReturnCodeLogged
            /\ FirstLines(OutputLogged(log), Len(Out))
            /\ xcom_push_flag => FirstLines(output_buffer.val, Len(Out))

\* C10 as stated: script written before the spawn, stream drained before the wait,
\* exit code read and logged after the wait, decision after that with every line
\* logged, and the temporary directory removed only after the child has terminated.
C10_FixedOrder ==
    /\ C10_StepsInOrder
    /\ (tmp_dir = "removed" /\ child # "none") => child = "exited"

\* C10 amended: the same order; the temporary directory is removed only after the
\* child has terminated when execute() returns or raises the command-failed error.
\* (An exception leaving the read loop removes it without waiting for the child.)
C10_FixedOrderOnDecision ==
    /\ C10_StepsInOrder
    /\ (tmp_dir = "removed" /\ raised \in {NoExc, "AirflowException"}) => child = "exited"

C10_Witness ==
    /\ pc = "done"
    /\ raised = "AirflowException"
    /\ tmp_dir = "removed"
    /\ child = "exited"
    /\ Len(OutputLogged(log)) = 2

====
